---- MODULE Spec2Model ----
(***************************************************************************)
(* Model of wst.builder.setuptools.SetuptoolsBuilder, the setuptools/pip3  *)
(* backend of the ws workspace tool: the four lifecycle hooks env, conf,   *)
(* build and clean, acting on one shared environment mapping, the file    *)
(* system and the log of installer invocations.                            *)
(*                                                                         *)
(* A path or an argv word is a sequence of string tokens: an absolute     *)
(* path starts with the token "/", the word '--prefix=%s' % p is the      *)
(* token "--prefix=" followed by the tokens of p.  A path-like             *)
(* environment variable is the sequence of its entries.                    *)
(***************************************************************************)
EXTENDS Integers, Sequences, FiniteSets, TLC

VARIABLES
    SITE_PACKAGES_DIR,  \* class attribute _SITE_PACKAGES_DIR, set once at import
    environment,        \* the shared environment mapping handed to every hook
    fs,                 \* the directories that exist on disk
    calls,              \* the installer invocations the last hook call ran, in order
    last,               \* the hook call that ran last, what it was given and gave
    envLog,             \* the env hook calls made so far: prefix given, environment left
    env0                \* the environment the run started from

vars == <<SITE_PACKAGES_DIR, environment, fs, calls, last, envLog, env0>>

(***************************************************************************)
(* Bounds of the model.                                                    *)
(***************************************************************************)
MaxEnvCalls == 2

(***************************************************************************)
(* Inputs.                                                                 *)
(***************************************************************************)
Projects == {"a", "b"}

PrefixOf(proj) == IF proj = "a" THEN <<"/", "ws", "install">> ELSE <<"/", "opt", "stage">>

SourceDirOf(proj) == <<"/", "ws", "src", proj>>

BuildDirOf(proj) == <<"/", "ws", "build", proj>>

\* sysconfig.get_paths()['purelib']: an absolute directory on a CPython
\* install; the relative form is the one the comment of env has in mind.
SitePackagesDirs == {<<"/", "usr", "lib", "site-packages">>, <<"lib", "site-packages">>}

\* The extra arguments a project is configured with: none, one, two in
\* either order, and the same one twice.
ExtraArgs ==
    {<<>>,
     <<<<"-v">>>>,
     <<<<"-v">>, <<"--no-deps">>>>,
     <<<<"--no-deps">>, <<"-v">>>>,
     <<<<"-v">>, <<"-v">>>>}

None == [isNone |-> TRUE, names |-> <<>>]

DEFAULT_TARGETS == [isNone |-> FALSE, names |-> <<"default">>]

TargetValues == {None, DEFAULT_TARGETS, [isNone |-> FALSE, names |-> <<"docs">>]}

BuildTypes == {"debug", "release"}

ConfArgs == {<<>>, <<<<"-v">>>>}

EmptyEnv == [n \in {} |-> <<>>]

SeedEnvs ==
    {EmptyEnv,
     [n \in {"PATH"} |-> <<<<"/", "usr", "bin">>>>],
     [n \in {"PATH", "PYTHONPATH"} |->
        IF n = "PATH" THEN <<<<"/", "usr", "bin">>>>
        ELSE <<<<"/", "home", "lib">>, <<"/", "ws", "install", "lib", "site-packages">>>>]}

(***************************************************************************)
(* Helpers.                                                                *)
(***************************************************************************)
Range(s) == {s[i] : i \in 1..Len(s)}

Count(x, s) == Cardinality({i \in 1..Len(s) : s[i] = x})

IsAbs(p) == Len(p) > 0 /\ p[1] = "/"

\* os.path.join(a, b): an absolute b discards a.
PathJoin(a, b) == IF IsAbs(b) THEN b ELSE a \o b

\* os.path.normpath of a path: the "." components are dropped.
RECURSIVE NormPath(_)
NormPath(p) ==
    IF p = <<>> THEN <<>>
    ELSE IF Head(p) = "." THEN NormPath(Tail(p))
    ELSE <<Head(p)>> \o NormPath(Tail(p))

\* The directory an argument names for a process running in cwd.
Resolve(cwd, p) == NormPath(PathJoin(cwd, p))

IsUnder(p, dir) == Len(p) >= Len(dir) /\ SubSeq(p, 1, Len(dir)) = dir

Fmt(flag, value) == <<flag>> \o value

(***************************************************************************)
(* External services of the adapter.                                       *)
(***************************************************************************)
\* wst.conf.merge_var(env, name, values): append-if-absent, keeping order.
RECURSIVE MergeList(_, _)
MergeList(cur, values) ==
    IF values = <<>> THEN cur
    ELSE MergeList(IF Head(values) \in Range(cur) THEN cur
                   ELSE Append(cur, Head(values)),
                   Tail(values))

merge_var(e, name, values) ==
    [n \in DOMAIN e \cup {name} |->
        IF n = name
        THEN MergeList(IF name \in DOMAIN e THEN e[name] ELSE <<>>, values)
        ELSE e[n]]

\* wst.shell.call_build(cmd, cwd, env): runs the tool, which leaves its
\* intermediate files under the --build directory, and reports its exit
\* status ok as a boolean.
call_build(cmd, cwd, e, build_dir, ok, w) ==
    [ret    |-> IF ok THEN "True" ELSE "False",
     raised |-> "none",
     fs     |-> w.fs \cup {build_dir, build_dir \o <<"tmp">>},
     calls  |-> Append(w.calls, [cmd |-> cmd, cwd |-> cwd, env |-> e, ok |-> ok])]

\* wst.shell.rmtree(path): recursive remove-if-exists.
rmtree(path, w) ==
    [ret    |-> "None",
     raised |-> "none",
     fs     |-> {p \in w.fs : ~IsUnder(p, path)},
     calls  |-> w.calls]

(***************************************************************************)
(* SetuptoolsBuilder.                                                      *)
(***************************************************************************)
python_path(prefix) == PathJoin(prefix, SITE_PACKAGES_DIR)

\* Variants of env: appending without the merge, overwriting the variable,
\* and merging at the front.
env_append(proj, prefix, build_dir, e) ==
    [n \in DOMAIN e \cup {"PYTHONPATH"} |->
        IF n = "PYTHONPATH"
        THEN Append(IF n \in DOMAIN e THEN e[n] ELSE <<>>, python_path(prefix))
        ELSE e[n]]

env_overwrite(proj, prefix, build_dir, e) ==
    [n \in DOMAIN e \cup {"PYTHONPATH"} |->
        IF n = "PYTHONPATH" THEN <<python_path(prefix)>> ELSE e[n]]

env_prepend(proj, prefix, build_dir, e) ==
    [n \in DOMAIN e \cup {"PYTHONPATH"} |->
        IF n = "PYTHONPATH"
        THEN LET cur == IF n \in DOMAIN e THEN e[n] ELSE <<>>
             IN  IF python_path(prefix) \in Range(cur) THEN cur
                 ELSE <<python_path(prefix)>> \o cur
        ELSE e[n]]

env(proj, prefix, build_dir, e) ==
    merge_var(e, "PYTHONPATH", <<python_path(prefix)>>)

\* Variant of conf: a configure step that prepares the build directory.
conf_makedirs(proj, prefix, source_dir, build_dir, e, build_type, args, w) ==
    [ret |-> "True", raised |-> "none", fs |-> w.fs \cup {build_dir}, calls |-> w.calls]

conf(proj, prefix, source_dir, build_dir, e, build_type, args, w) ==
    [ret |-> "True", raised |-> "none", fs |-> w.fs, calls |-> w.calls]

\* Variant of build_cmd: the extra arguments put before the fixed flags.
build_cmd_args_first(prefix, build_dir, args) ==
    <<<<"pip3">>, <<"install">>>> \o args
        \o <<Fmt("--prefix=", prefix), Fmt("--build=", build_dir), <<".">>>>

build_cmd(prefix, build_dir, args) ==
    <<<<"pip3">>, <<"install">>, Fmt("--prefix=", prefix), Fmt("--build=", build_dir)>>
        \o args \o <<<<".">>>>

\* Variants of build: no check of targets, the tool run in build_dir, the
\* tool's outcome dropped, and a build directory required to exist.
build_no_check(proj, prefix, source_dir, build_dir, e, targets, args, ok, w) ==
    call_build(build_cmd(prefix, build_dir, args), source_dir, e, build_dir, ok, w)

build_in_build_dir(proj, prefix, source_dir, build_dir, e, targets, args, ok, w) ==
    IF ~targets.isNone /\ targets # DEFAULT_TARGETS
    THEN [ret |-> "None", raised |-> "WSError", fs |-> w.fs, calls |-> w.calls]
    ELSE call_build(build_cmd(prefix, build_dir, args), build_dir, e, build_dir, ok, w)

build_always_true(proj, prefix, source_dir, build_dir, e, targets, args, ok, w) ==
    IF ~targets.isNone /\ targets # DEFAULT_TARGETS
    THEN [ret |-> "None", raised |-> "WSError", fs |-> w.fs, calls |-> w.calls]
    ELSE [call_build(build_cmd(prefix, build_dir, args), source_dir, e, build_dir, ok, w)
            EXCEPT !.ret = "True"]

build_needs_build_dir(proj, prefix, source_dir, build_dir, e, targets, args, ok, w) ==
    IF ~targets.isNone /\ targets # DEFAULT_TARGETS
    THEN [ret |-> "None", raised |-> "WSError", fs |-> w.fs, calls |-> w.calls]
    ELSE IF build_dir \notin w.fs
    THEN [ret |-> "None", raised |-> "FileNotFoundError", fs |-> w.fs, calls |-> w.calls]
    ELSE call_build(build_cmd(prefix, build_dir, args), source_dir, e, build_dir, ok, w)

build(proj, prefix, source_dir, build_dir, e, targets, args, ok, w) ==
    IF ~targets.isNone /\ targets # DEFAULT_TARGETS
    THEN [ret |-> "None", raised |-> "WSError", fs |-> w.fs, calls |-> w.calls]
    ELSE call_build(build_cmd(prefix, build_dir, args), source_dir, e, build_dir, ok, w)

\* Variant of clean: the wrong directory removed.
clean_source(proj, prefix, source_dir, build_dir, e, w) ==
    rmtree(source_dir, w)

clean(proj, prefix, source_dir, build_dir, e, w) ==
    rmtree(build_dir, w)

(***************************************************************************)
(* The state machine: the orchestrator calls the hooks one at a time, each *)
(* on the shared environment and the disk as the earlier calls left them.  *)
(***************************************************************************)
World == [fs |-> fs, calls |-> <<>>]

NoCall ==
    [op |-> "none", proj |-> "a", prefix |-> <<>>, source_dir |-> <<>>,
     build_dir |-> <<>>, targets |-> None, args |-> <<>>,
     ret |-> "None", raised |-> "none",
     envBefore |-> EmptyEnv, fsBefore |-> {}, afterClean |-> FALSE]

\* afterClean: the call before this one was clean, for the same build
\* directory, which did not exist when that clean began.
Call(op, proj, targets, args, out) ==
    [op |-> op, proj |-> proj, prefix |-> PrefixOf(proj),
     source_dir |-> SourceDirOf(proj), build_dir |-> BuildDirOf(proj),
     targets |-> targets, args |-> args,
     ret |-> out.ret, raised |-> out.raised,
     envBefore |-> environment, fsBefore |-> fs,
     afterClean |-> /\ op = "build"
                    /\ last.op = "clean"
                    /\ last.build_dir = BuildDirOf(proj)
                    /\ last.build_dir \notin last.fsBefore]

Init ==
    /\ SITE_PACKAGES_DIR \in SitePackagesDirs
    /\ env0 \in SeedEnvs
    /\ environment = env0
    /\ \E built \in SUBSET Projects :
         fs = {SourceDirOf(p) : p \in Projects}
                \cup {BuildDirOf(p) : p \in built}
                \cup {BuildDirOf(p) \o <<"tmp">> : p \in built}
    /\ calls = <<>>
    /\ last = NoCall
    /\ envLog = <<>>

Env(proj) ==
    /\ Len(envLog) < MaxEnvCalls
    /\ environment' = env(proj, PrefixOf(proj), BuildDirOf(proj), environment)
    /\ envLog' = Append(envLog, [prefix |-> PrefixOf(proj), after |-> environment'])
    /\ calls' = <<>>
    /\ last' = Call("env", proj, None, <<>>, [ret |-> "None", raised |-> "none"])
    /\ UNCHANGED <<SITE_PACKAGES_DIR, fs, env0>>

Conf(proj, build_type, args) ==
    /\ LET out == conf(proj, PrefixOf(proj), SourceDirOf(proj), BuildDirOf(proj),
                       environment, build_type, args, World)
       IN  /\ fs' = out.fs
           /\ calls' = out.calls
           /\ last' = Call("conf", proj, None, args, out)
    /\ UNCHANGED <<SITE_PACKAGES_DIR, environment, envLog, env0>>

Build(proj, targets, args, ok) ==
    /\ LET out == build(proj, PrefixOf(proj), SourceDirOf(proj), BuildDirOf(proj),
                        environment, targets, args, ok, World)
       IN  /\ fs' = out.fs
           /\ calls' = out.calls
           /\ last' = Call("build", proj, targets, args, out)
    /\ UNCHANGED <<SITE_PACKAGES_DIR, environment, envLog, env0>>

Clean(proj) ==
    /\ LET out == clean(proj, PrefixOf(proj), SourceDirOf(proj), BuildDirOf(proj),
                        environment, World)
       IN  /\ fs' = out.fs
           /\ calls' = out.calls
           /\ last' = Call("clean", proj, None, <<>>, out)
    /\ UNCHANGED <<SITE_PACKAGES_DIR, environment, envLog, env0>>

Next ==
    \/ \E proj \in Projects : Env(proj)
    \/ \E proj \in Projects, build_type \in BuildTypes, args \in ConfArgs :
         Conf(proj, build_type, args)
    \/ \E proj \in Projects, targets \in TargetValues, args \in ExtraArgs, ok \in BOOLEAN :
         Build(proj, targets, args, ok)
    \/ \E proj \in Projects : Clean(proj)

Spec == Init /\ [][Next]_vars

TypeOK ==
    /\ SITE_PACKAGES_DIR \in SitePackagesDirs
    /\ Len(envLog) <= MaxEnvCalls
    /\ Len(calls) <= 1

(***************************************************************************)
(* Properties.                                                             *)
(***************************************************************************)
PyPath(e) == IF "PYTHONPATH" \in DOMAIN e THEN e["PYTHONPATH"] ELSE <<>>

DefaultOrAbsent(t) == t.isNone \/ t = DEFAULT_TARGETS

RanBuild == last.op = "build" /\ DefaultOrAbsent(last.targets)

\* The entries of the env calls 1..n that the start environment did not
\* hold, each once, in the order of the first call that gave it.
RECURSIVE FirstGiven(_)
FirstGiven(n) ==
    IF n = 0 THEN <<>>
    ELSE LET before == FirstGiven(n - 1)
             x == python_path(envLog[n].prefix)
         IN  IF x \in Range(PyPath(env0)) \cup Range(before) THEN before
             ELSE Append(before, x)

\* C1: env called twice with the same prefix on an initially empty
\* environment leaves PYTHONPATH holding the entry of that prefix exactly
\* once, and the second call changes nothing.
C1_EnvTwiceSamePrefix ==
    (env0 = EmptyEnv /\ Len(envLog) >= 2 /\ envLog[1].prefix = envLog[2].prefix) =>
        /\ envLog[2].after = envLog[1].after
        /\ Count(python_path(envLog[1].prefix), PyPath(envLog[2].after)) = 1
        /\ DOMAIN envLog[2].after = {"PYTHONPATH"}

C1_Witness ==
    /\ env0 = EmptyEnv
    /\ Len(envLog) = 2
    /\ envLog[1].prefix = envLog[2].prefix

\* C2: the entry each env call contributes is still in PYTHONPATH after
\* every later env call, and in the environment as it stands.
C2_EarlierEntriesKept ==
    \A i \in 1..Len(envLog) :
        /\ \A j \in i..Len(envLog) :
             python_path(envLog[i].prefix) \in Range(PyPath(envLog[j].after))
        /\ python_path(envLog[i].prefix) \in Range(PyPath(environment))

C2_Witness ==
    /\ Len(envLog) = 2
    /\ python_path(envLog[1].prefix) # python_path(envLog[2].prefix)
    /\ last.op = "env"

\* C3: build with targets that are neither None nor DEFAULT_TARGETS raises
\* WSError, runs no installer and changes nothing.
C3_BuildRejectsTargets ==
    (last.op = "build" /\ ~DefaultOrAbsent(last.targets)) =>
        /\ last.raised = "WSError"
        /\ calls = <<>>
        /\ fs = last.fsBefore
        /\ environment = last.envBefore

C3_Witness ==
    /\ last.op = "build"
    /\ ~DefaultOrAbsent(last.targets)
    /\ last.raised = "WSError"
    /\ last.args # <<>>

\* C4: build with absent or default targets issues exactly one invocation,
\* whose argument list holds --prefix=<prefix> and --build=<build_dir>,
\* then the extra arguments as supplied (same order, same multiplicity),
\* then one final argument; no extra argument comes before the two flags.
C4_BuildCommand ==
    RanBuild =>
        /\ Len(calls) = 1
        /\ LET cmd == calls[1].cmd
           IN  \E i, j \in 1..Len(cmd) :
                 /\ i # j
                 /\ cmd[i] = Fmt("--prefix=", last.prefix)
                 /\ cmd[j] = Fmt("--build=", last.build_dir)
                 /\ LET k == IF i < j THEN j ELSE i
                    IN  /\ Len(cmd) = k + Len(last.args) + 1
                        /\ SubSeq(cmd, k + 1, Len(cmd) - 1) = last.args
                        /\ \A m \in 1..k : cmd[m] \notin Range(last.args)

C4_Witness ==
    /\ RanBuild
    /\ Len(calls) = 1
    /\ Len(last.args) = 2
    /\ last.args[1] # last.args[2]

\* C5 as stated: the final argument of the invocation is the source
\* directory path, the tool runs in source_dir and is given the shared
\* environment as it is.
C5_LastArgIsSourceDir ==
    RanBuild =>
        /\ Len(calls) = 1
        /\ calls[1].cmd[Len(calls[1].cmd)] = last.source_dir
        /\ calls[1].cwd = last.source_dir
        /\ calls[1].env = last.envBefore
        /\ environment = last.envBefore

\* C5 as amended: the final argument of the invocation is the word ".",
\* which names the source directory because the tool runs with source_dir
\* as its working directory; the tool is given the shared environment as it
\* is, and the build leaves that environment unchanged.
C5_LastArgIsDot ==
    RanBuild =>
        /\ Len(calls) = 1
        /\ calls[1].cmd[Len(calls[1].cmd)] = <<".">>
        /\ calls[1].cwd = last.source_dir
        /\ Resolve(calls[1].cwd, calls[1].cmd[Len(calls[1].cmd)]) = last.source_dir
        /\ calls[1].env = last.envBefore
        /\ environment = last.envBefore

C5_Witness ==
    /\ RanBuild
    /\ Len(calls) = 1
    /\ Len(envLog) >= 1
    /\ "PYTHONPATH" \in DOMAIN calls[1].env

\* C6: the value build returns is the outcome of the installer invocation:
\* "False" for a failing tool, "True" for a succeeding one, never a raise.
C6_BuildReturnsOutcome ==
    RanBuild =>
        /\ last.raised = "none"
        /\ Len(calls) = 1
        /\ last.ret = IF calls[1].ok THEN "True" ELSE "False"

C6_Witness ==
    /\ RanBuild
    /\ Len(calls) = 1
    /\ ~calls[1].ok
    /\ last.ret = "False"
    /\ last.raised = "none"

\* C7: clean raises nothing and leaves build_dir absent, whether it existed
\* or not; it removes exactly the tree under build_dir and changes neither
\* any other directory nor the environment, and runs no installer.
C7_CleanRemovesBuildDir ==
    last.op = "clean" =>
        /\ last.raised = "none"
        /\ \A p \in fs : ~IsUnder(p, last.build_dir)
        /\ fs = {p \in last.fsBefore : ~IsUnder(p, last.build_dir)}
        /\ last.source_dir \in fs
        /\ environment = last.envBefore
        /\ calls = <<>>

C7_Witness ==
    /\ last.op = "clean"
    /\ last.build_dir \notin last.fsBefore
    /\ last.build_dir \notin fs
    /\ \E p \in fs : p # last.source_dir /\ IsUnder(p, <<"/", "ws", "build">>)

\* C8: build with absent or default targets, called right after a clean
\* that found build_dir absent, raises nothing, issues its invocation and
\* returns the tool's outcome: it succeeds whenever the tool does.
C8_CleanThenBuild ==
    (RanBuild /\ last.afterClean) =>
        /\ last.raised = "none"
        /\ Len(calls) = 1
        /\ calls[1].cmd = build_cmd(last.prefix, last.build_dir, last.args)
        /\ (calls[1].ok => last.ret = "True")

C8_Witness ==
    /\ RanBuild
    /\ last.afterClean
    /\ last.build_dir \notin last.fsBefore
    /\ last.ret = "True"

\* C9: conf returns True for every input and has no effect: no installer
\* invocation, the environment and the disk as they were.
C9_ConfNoEffect ==
    last.op = "conf" =>
        /\ last.ret = "True"
        /\ last.raised = "none"
        /\ calls = <<>>
        /\ environment = last.envBefore
        /\ fs = last.fsBefore

C9_Witness ==
    /\ last.op = "conf"
    /\ last.build_dir \notin fs
    /\ last.args # <<>>
    /\ last.ret = "True"

\* C10: an env call keeps the entries PYTHONPATH held, in their order, and
\* puts its own entry after them only if it was absent; PYTHONPATH never
\* holds an entry twice, and holds the start entries followed by the
\* contributed ones in the order of the first call that gave each.
C10_AppendIfAbsent ==
    /\ last.op = "env" =>
         LET old == PyPath(last.envBefore)
             new == PyPath(environment)
             x   == python_path(last.prefix)
         IN  /\ Len(new) >= Len(old)
             /\ SubSeq(new, 1, Len(old)) = old
             /\ IF x \in Range(old) THEN new = old
                ELSE Len(new) = Len(old) + 1 /\ new[Len(new)] = x
    /\ \A x \in Range(PyPath(environment)) : Count(x, PyPath(environment)) = 1
    /\ Len(envLog) >= 1 =>
         PyPath(environment) = PyPath(env0) \o FirstGiven(Len(envLog))

C10_Witness ==
    /\ last.op = "env"
    /\ Len(envLog) = 2
    /\ PyPath(env0) # <<>>
    /\ Len(PyPath(environment)) = Len(PyPath(env0)) + 1
    /\ PyPath(last.envBefore) = PyPath(environment)
====
